---- MODULE Spec2Model ----
(***************************************************************************)
(* Model of src/main.py: the refresh/aggregation engine of the time-usage  *)
(* dashboard.  Two process-wide globals, data and category_totals, are     *)
(* written by the refresh_data callback and read by five view callbacks.   *)
(* app.run serves every callback request on its own thread, so handlers    *)
(* interleave at the granularity of their reads and writes of the globals. *)
(*                                                                         *)
(* Spec     the threaded program: refresh_data split at each access to a   *)
(*          global, update_time_series split between its two reads of data.*)
(* SpecSeq  the same handlers run one at a time, over a richer set of      *)
(*          source tables; it is the specification of the pure views.      *)
(*                                                                         *)
(* A DataFrame is [columns, rows]; rows is the sequence of records in      *)
(* index order.  minutes is (end - init) / 60_000; every modelled          *)
(* timestamp is a multiple of 60_000, where the float division is exact.   *)
(* All modelled timestamps lie in January 1970, where the tz database      *)
(* gives America/Santiago the offset -03:00.                               *)
(***************************************************************************)
EXTENDS Integers, Sequences, FiniteSets, TLC

VARIABLES
    data,             \* global data (line 21): the current records
    category_totals,  \* global category_totals (line 22)
    rf_pc,            \* per request thread: position inside refresh_data
    rf_totals,        \* per request thread: the groupby result not yet stored
    triggers,         \* refresh requests received so far
    store,            \* dcc.Store "store": outputs refresh_data has returned
    vw_pc,            \* position of the running update_time_series, or "idle"
    vw_outer,         \* update_time_series: the frame its first read returned
    vw_sel,           \* update_time_series: its selected_categories argument
    figure            \* the view response on its way to the browser, or NoFigure

vars == <<data, category_totals, rf_pc, rf_totals, triggers, store,
          vw_pc, vw_outer, vw_sel, figure>>

----------------------------------------------------------------------------
(* Bounds *)

MaxRows == 2          \* rows of a source table under SpecSeq
MaxRaceRows == 2      \* rows of a source table under Spec
MaxRefreshes == 2     \* refresh requests over one run

Threads == {"t1", "t2"}

----------------------------------------------------------------------------
(* Values *)

None == "None"        \* Python None: a NULL category read from the table

MsPerMinute == 60000
MsPerHour == 3600000
MsPerDay == 86400000

\* UTC offset of America/Santiago over the modelled range (January 1970).
SantiagoUtcOffsetMs == 0 - 3 * MsPerHour

\* Lexicographic order of the category strings (groupby sorts its keys).
CategoryOrder == <<"sleep", "work">>

\* day_name() values in calendar order, and in the order groupby sorts them.
DayNames == <<"Monday", "Tuesday", "Wednesday", "Thursday", "Friday",
              "Saturday", "Sunday">>
DayNameOrder == <<"Friday", "Monday", "Saturday", "Sunday", "Thursday",
                  "Tuesday", "Wednesday">>

\* pd.DataFrame(): no columns, no rows.
EmptyFrame == [columns |-> {}, rows |-> <<>>]

RawRecord(c, i, e) == [category |-> c, init_time_ms |-> i, end_time_ms |-> e]

\* Source rows of the logs table.  Spans: 10 minutes on the local evening of
\* 1969-12-31 (Wednesday 21h), 480 minutes from 21:10, 10 minutes after local
\* midnight (Thursday 0h), and a span whose end precedes its start.
LogRows == {RawRecord("work", 0, 600000), RawRecord("work", 600000, 29400000),
            RawRecord("work", 10800000, 11400000), RawRecord("work", 11400000, 10800000),
            RawRecord("sleep", 0, 600000), RawRecord("sleep", 600000, 29400000),
            RawRecord("sleep", 10800000, 11400000), RawRecord(None, 0, 600000)}
RaceRows == {RawRecord("work", 0, 600000), RawRecord("sleep", 600000, 29400000)}

SeqsUpTo(S, n) == UNION {[1..k -> S] : k \in 0..n}
Tables == SeqsUpTo(LogRows, MaxRows)
RaceTables == SeqsUpTo(RaceRows, MaxRaceRows)

\* selected_categories as sent by the browser: a list of dropdown values.
Selections == SUBSET {"work", "sleep", None}

----------------------------------------------------------------------------
(* Helpers *)

RECURSIVE SeqSum(_)
SeqSum(s) == IF s = <<>> THEN 0 ELSE Head(s) + SeqSum(Tail(s))

RECURSIVE SortInts(_)
SortInts(S) ==
    IF S = {} THEN <<>>
    ELSE LET m == CHOOSE x \in S : \A y \in S : x <= y
         IN <<m>> \o SortInts(S \ {m})

IndexIn(seq, x) == CHOOSE i \in 1..Len(seq) : seq[i] = x

\* ["minutes"].sum() over the rows of one group.
SumMinutes(rows) == SeqSum([i \in 1..Len(rows) |-> rows[i].minutes])

\* Series.dt on the zoned date: local days since 1970-01-01, weekday, hour.
LocalDay(date) == date \div MsPerDay
day_name(date) == DayNames[((LocalDay(date) + 3) % 7) + 1]
hour(date) == (date % MsPerDay) \div MsPerHour

----------------------------------------------------------------------------
(* load_data and the aggregations *)

LoadedColumns == {"category", "init_time_ms", "end_time_ms", "minutes", "date"}

\* NormalizeRow with a negative duration clamped to zero.
NormalizeRowClamped(r) ==
    [category |-> r.category,
     init_time_ms |-> r.init_time_ms,
     end_time_ms |-> r.end_time_ms,
     minutes |-> IF r.end_time_ms < r.init_time_ms THEN 0
                 ELSE (r.end_time_ms - r.init_time_ms) \div MsPerMinute,
     date |-> r.init_time_ms + SantiagoUtcOffsetMs]

\* Lines 32-38: the derived columns of one row.
NormalizeRow(r) ==
    [category |-> r.category,
     init_time_ms |-> r.init_time_ms,
     end_time_ms |-> r.end_time_ms,
     minutes |-> (r.end_time_ms - r.init_time_ms) \div MsPerMinute,
     date |-> r.init_time_ms + SantiagoUtcOffsetMs]

\* load_data returning pd.DataFrame() when the table has no rows.
load_data_bare_when_empty(logs) ==
    IF logs = <<>> THEN EmptyFrame
    ELSE [columns |-> LoadedColumns,
          rows |-> [i \in 1..Len(logs) |-> NormalizeRow(logs[i])]]

\* load_data on a successful read of the table: every row read is kept.
load_data(logs) ==
    [columns |-> LoadedColumns,
     rows |-> [i \in 1..Len(logs) |-> NormalizeRow(logs[i])]]

\* Keys of a groupby: NaN/None keys are dropped (dropna default).
GroupCategories(rows) == {rows[i].category : i \in 1..Len(rows)} \ {None}

\* GroupByCategory with sort=False: groups in order of first occurrence.
GroupByCategoryUnsorted(frame) ==
    LET cats == GroupCategories(frame.rows)
        firstRow(c) == CHOOSE i \in 1..Len(frame.rows) :
                          /\ frame.rows[i].category = c
                          /\ \A j \in 1..(i - 1) : frame.rows[j].category # c
        order == SortInts({firstRow(c) : c \in cats})
    IN [columns |-> {"category", "minutes"},
        rows |-> [k \in 1..Len(order) |->
                    [category |-> frame.rows[order[k]].category,
                     minutes |-> SumMinutes(SelectSeq(frame.rows,
                                   LAMBDA r : r.category = frame.rows[order[k]].category))]]]

\* data.groupby("category")["minutes"].sum().reset_index(): one row per
\* category, sorted by category.
GroupByCategory(frame) ==
    LET cats == GroupCategories(frame.rows)
        order == SortInts({IndexIn(CategoryOrder, c) : c \in cats})
    IN [columns |-> {"category", "minutes"},
        rows |-> [k \in 1..Len(order) |->
                    [category |-> CategoryOrder[order[k]],
                     minutes |-> SumMinutes(SelectSeq(frame.rows,
                                   LAMBDA r : r.category = CategoryOrder[order[k]]))]]]

\* Unique that stops at the first category.
UniqueFirstOnly(cats) == IF cats = <<>> THEN <<>> ELSE <<cats[1]>>

\* data["category"].unique().tolist(): first occurrences, in row order.
RECURSIVE Unique(_)
Unique(cats) ==
    IF cats = <<>> THEN <<>>
    ELSE LET init == Unique(SubSeq(cats, 1, Len(cats) - 1))
             last == cats[Len(cats)]
         IN IF \E i \in 1..Len(init) : init[i] = last THEN init ELSE Append(init, last)

CategoryColumn(frame) == [i \in 1..Len(frame.rows) |-> frame.rows[i].category]

\* IsIn with a mask that selects every row.
IsInSelectsAll(frame, sel) == [i \in 1..Len(frame.rows) |-> TRUE]

\* data["category"].isin(selected_categories): the boolean mask.
IsIn(frame, sel) == [i \in 1..Len(frame.rows) |-> frame.rows[i].category \in sel]

\* outer[mask]: the mask is reindexed to outer's index; a position of outer
\* the mask does not cover raises IndexingError.
BoolIndexable(outer, mask) == Len(outer.rows) <= Len(mask)
BoolIndex(outer, mask) ==
    LET keep == {i \in 1..Len(outer.rows) : mask[i]}
        order == SortInts(keep)
    IN [columns |-> outer.columns,
        rows |-> [k \in 1..Len(order) |-> outer.rows[order[k]]]]

\* groupby([Grouper(key="date", freq="D"), "category"])["minutes"].sum()
\* .reset_index(): one row per observed (local day, category), sorted.
DailyKey(r) == LocalDay(r.date) * (Len(CategoryOrder) + 1)
               + IndexIn(CategoryOrder, r.category)
\* GroupByDay taking the first row of each group instead of the group's sum.
GroupByDayFirst(frame) ==
    LET rows == SelectSeq(frame.rows, LAMBDA r : r.category # None)
        order == SortInts({DailyKey(rows[i]) : i \in 1..Len(rows)})
        first(k) == rows[CHOOSE i \in 1..Len(rows) : DailyKey(rows[i]) = order[k]]
    IN [k \in 1..Len(order) |->
          [date |-> LocalDay(first(k).date),
           category |-> first(k).category,
           minutes |-> first(k).minutes]]

GroupByDay(frame) ==
    LET rows == SelectSeq(frame.rows, LAMBDA r : r.category # None)
        order == SortInts({DailyKey(rows[i]) : i \in 1..Len(rows)})
        first(k) == rows[CHOOSE i \in 1..Len(rows) : DailyKey(rows[i]) = order[k]]
    IN [k \in 1..Len(order) |->
          [date |-> LocalDay(first(k).date),
           category |-> first(k).category,
           minutes |-> SumMinutes(SelectSeq(rows, LAMBDA r : DailyKey(r) = order[k]))]]

\* Lines 186-190: day_of_week and hour columns, the sleep filter, and
\* groupby(["day_of_week", "hour", "category"])["minutes"].sum().reset_index().
HeatmapKey(r) == ((IndexIn(DayNameOrder, day_name(r.date)) * 24) + hour(r.date))
                 * (Len(CategoryOrder) + 1) + IndexIn(CategoryOrder, r.category)
SleepFilterKeepsAll(rows) == rows
SleepFilter(rows) == SelectSeq(rows, LAMBDA r : r.category # "sleep")
GroupByDayHour(frame) ==
    LET rows == SelectSeq(SleepFilter(frame.rows), LAMBDA r : r.category # None)
        order == SortInts({HeatmapKey(rows[i]) : i \in 1..Len(rows)})
        first(k) == rows[CHOOSE i \in 1..Len(rows) : HeatmapKey(rows[i]) = order[k]]
    IN [k \in 1..Len(order) |->
          [day_of_week |-> day_name(first(k).date),
           hour |-> hour(first(k).date),
           category |-> first(k).category,
           minutes |-> SumMinutes(SelectSeq(rows, LAMBDA r : HeatmapKey(r) = order[k]))]]

\* DescendingOrders with ascending left at its default.
RECURSIVE AscendingOrders(_)
AscendingOrders(S) ==
    IF S = {} THEN {<<>>}
    ELSE UNION {{<<x>> \o t : t \in AscendingOrders(S \ {x})} :
                x \in {y \in S : \A z \in S : y.minutes <= z.minutes}}

\* sort_values("minutes", ascending=False): every order of the rows that is
\* descending in minutes (the default sort kind fixes no order among ties).
RECURSIVE DescendingOrders(_)
DescendingOrders(S) ==
    IF S = {} THEN {<<>>}
    ELSE UNION {{<<x>> \o t : t \in DescendingOrders(S \ {x})} :
                x \in {y \in S : \A z \in S : z.minutes <= y.minutes}}

----------------------------------------------------------------------------
(* Responses of the view callbacks *)

NoFigure == [view |-> "none", status |-> "none", sel |-> {}, value |-> <<>>]
Figure(v, sel, value) == [view |-> v, status |-> "ok", sel |-> sel, value |-> value]
\* The callback raised (KeyError, ValueError, IndexingError): no figure.
Raised(v, sel) == [view |-> v, status |-> "error", sel |-> sel, value |-> <<>>]

\* update_pie_chart: px.pie over category_totals as stored.
PieChart(totals) ==
    IF "minutes" \in totals.columns
    THEN Figure("pie-chart", {}, totals.rows)
    ELSE Raised("pie-chart", {})

\* update_bar_chart: the responses sort_values can produce.
BarCharts(totals) ==
    IF "minutes" \in totals.columns
    THEN {Figure("bar-chart", {}, s) :
            s \in DescendingOrders({totals.rows[i] : i \in 1..Len(totals.rows)})}
    ELSE {Raised("bar-chart", {})}

\* update_dropdown: options and value carry the same list of categories.
Dropdown(frame) ==
    IF "category" \in frame.columns
    THEN Figure("category-filter", {}, Unique(CategoryColumn(frame)))
    ELSE Raised("category-filter", {})

\* update_time_series, given the frames its two reads of data returned
\* (outer[inner["category"].isin(sel)]); an empty selection reads data once.
TimeSeries(outer, inner, sel) ==
    IF sel = {}
    THEN IF "date" \in outer.columns
         THEN Figure("time-series", sel, GroupByDay(outer))
         ELSE Raised("time-series", sel)
    ELSE IF "category" \notin inner.columns
              \/ ~BoolIndexable(outer, IsIn(inner, sel))
              \/ "date" \notin outer.columns
         THEN Raised("time-series", sel)
         ELSE Figure("time-series", sel, GroupByDay(BoolIndex(outer, IsIn(inner, sel))))

\* update_heatmap over its copy of data.
Heatmap(frame) ==
    IF "date" \in frame.columns
    THEN Figure("heatmap", {}, GroupByDayHour(frame))
    ELSE Raised("heatmap", {})

----------------------------------------------------------------------------
(* Initial state: lines 20-22 and the layout of lines 93-99 *)

Init ==
    /\ data = EmptyFrame
    /\ category_totals = EmptyFrame
    /\ rf_pc = [t \in Threads |-> "idle"]
    /\ rf_totals = [t \in Threads |-> EmptyFrame]
    /\ triggers = 0
    /\ store = 0
    /\ vw_pc = "idle"
    /\ vw_outer = EmptyFrame
    /\ vw_sel = {}
    /\ figure = NoFigure

viewer == <<vw_pc, vw_outer, vw_sel, figure>>
refresher == <<rf_pc, rf_totals, triggers, store>>

----------------------------------------------------------------------------
(* refresh_data, threaded (lines 106-113) *)

InProgress == {"load", "groupby", "assign"}

\* The interval (or the initial call) posts a refresh request; a request
\* thread picks it up.
Trigger(t) ==
    /\ rf_pc[t] \notin InProgress
    /\ triggers < MaxRefreshes
    /\ rf_pc' = [rf_pc EXCEPT ![t] = "load"]
    /\ triggers' = triggers + 1
    /\ UNCHANGED <<data, category_totals, rf_totals, store, viewer>>

\* data = load_data(): the table read returns logs, the global is assigned.
LoadData(t, logs) ==
    /\ rf_pc[t] = "load"
    /\ data' = load_data(logs)
    /\ rf_pc' = [rf_pc EXCEPT ![t] = "groupby"]
    /\ UNCHANGED <<category_totals, rf_totals, triggers, store, viewer>>

\* LoadFails with the global reset before the exception is raised.
LoadFailsResetsData(t) ==
    /\ rf_pc[t] = "load"
    /\ data' = EmptyFrame
    /\ rf_pc' = [rf_pc EXCEPT ![t] = "raised"]
    /\ UNCHANGED <<category_totals, rf_totals, triggers, store, viewer>>

\* load_data raises (the source is unreachable): the exception leaves
\* refresh_data before the assignment, and the request fails.
LoadFails(t) ==
    /\ rf_pc[t] = "load"
    /\ rf_pc' = [rf_pc EXCEPT ![t] = "raised"]
    /\ UNCHANGED <<data, category_totals, rf_totals, triggers, store, viewer>>

\* Right-hand side of line 112: reads the GLOBAL data and groups it.
GroupTotals(t) ==
    /\ rf_pc[t] = "groupby"
    /\ rf_totals' = [rf_totals EXCEPT ![t] = GroupByCategory(data)]
    /\ rf_pc' = [rf_pc EXCEPT ![t] = "assign"]
    /\ UNCHANGED <<data, category_totals, triggers, store, viewer>>

\* Line 112 assigns category_totals; line 113 returns the store output.
StoreTotals(t) ==
    /\ rf_pc[t] = "assign"
    /\ category_totals' = rf_totals[t]
    /\ rf_totals' = [rf_totals EXCEPT ![t] = EmptyFrame]
    /\ rf_pc' = [rf_pc EXCEPT ![t] = "returned"]
    /\ store' = store + 1
    /\ UNCHANGED <<data, triggers, vw_pc, vw_outer, vw_sel, figure>>

----------------------------------------------------------------------------
(* The view callbacks.  Each has the store output as an Input, so the      *)
(* browser requests it only once refresh_data has returned an output.      *)

\* The views requested on page load without waiting for refresh_data.
ViewsOnPageLoad == TRUE

StoreOutput == store > 0

\* The one modelled browser has a single view request outstanding at a time.
ViewIdle == vw_pc = "idle" /\ figure = NoFigure

update_pie_chart ==
    /\ StoreOutput
    /\ ViewIdle
    /\ figure' = PieChart(category_totals)
    /\ UNCHANGED <<data, category_totals, refresher, vw_pc, vw_outer, vw_sel>>

update_bar_chart ==
    /\ StoreOutput
    /\ ViewIdle
    /\ figure' \in BarCharts(category_totals)
    /\ UNCHANGED <<data, category_totals, refresher, vw_pc, vw_outer, vw_sel>>

update_dropdown ==
    /\ StoreOutput
    /\ ViewIdle
    /\ figure' = Dropdown(data)
    /\ UNCHANGED <<data, category_totals, refresher, vw_pc, vw_outer, vw_sel>>

\* update_heatmap adding its columns to data itself instead of a copy.
update_heatmap_in_place ==
    /\ StoreOutput
    /\ ViewIdle
    /\ figure' = Heatmap(data)
    /\ data' = [data EXCEPT !.columns = @ \cup {"day_of_week", "hour"}]
    /\ UNCHANGED <<category_totals, refresher, vw_pc, vw_outer, vw_sel>>

\* Lines 185-190 work on data.copy() and on new frames.
update_heatmap ==
    /\ StoreOutput
    /\ ViewIdle
    /\ figure' = Heatmap(data)
    /\ UNCHANGED <<data, category_totals, refresher, vw_pc, vw_outer, vw_sel>>

\* update_time_series with an empty selection: the else branch, one read.
TimeSeriesAll ==
    /\ StoreOutput
    /\ ViewIdle
    /\ figure' = TimeSeries(data, data, {})
    /\ UNCHANGED <<data, category_totals, refresher, vw_pc, vw_outer, vw_sel>>

\* update_time_series with a selection: the first load of the global data
\* (the frame to index) ...
TimeSeriesOuter(sel) ==
    /\ StoreOutput
    /\ ViewIdle
    /\ sel # {}
    /\ vw_pc' = "filter"
    /\ vw_outer' = data
    /\ vw_sel' = sel
    /\ UNCHANGED <<data, category_totals, refresher, figure>>

\* ... and the second load (the frame the mask is computed from), the
\* indexing and the groupby.
TimeSeriesFilter ==
    /\ vw_pc = "filter"
    /\ figure' = TimeSeries(vw_outer, data, vw_sel)
    /\ vw_pc' = "idle"
    /\ vw_outer' = EmptyFrame
    /\ vw_sel' = {}
    /\ UNCHANGED <<data, category_totals, refresher>>

\* The browser receives the response and renders it.
Deliver ==
    /\ figure # NoFigure
    /\ figure' = NoFigure
    /\ UNCHANGED <<data, category_totals, refresher, vw_pc, vw_outer, vw_sel>>

Next ==
    \/ \E t \in Threads : Trigger(t)
    \/ \E t \in Threads, logs \in RaceTables : LoadData(t, logs)
    \/ \E t \in Threads : LoadFails(t)
    \/ \E t \in Threads : GroupTotals(t)
    \/ \E t \in Threads : StoreTotals(t)
    \/ update_pie_chart
    \/ update_bar_chart
    \/ update_dropdown
    \/ update_heatmap
    \/ TimeSeriesAll
    \/ \E sel \in Selections : TimeSeriesOuter(sel)
    \/ TimeSeriesFilter
    \/ Deliver

Spec == Init /\ [][Next]_vars

----------------------------------------------------------------------------
(* The handlers run one at a time: a request is served, and its response   *)
(* delivered, before the next request is taken.                            *)

\* refresh_data from its first line to its return.
SeqRefresh(logs) ==
    /\ figure = NoFigure
    /\ triggers < MaxRefreshes
    /\ triggers' = triggers + 1
    /\ data' = load_data(logs)
    /\ category_totals' = GroupByCategory(load_data(logs))
    /\ store' = store + 1
    /\ UNCHANGED <<rf_pc, rf_totals, viewer>>

\* refresh_data when load_data raises.
SeqRefreshFails ==
    /\ figure = NoFigure
    /\ triggers < MaxRefreshes
    /\ triggers' = triggers + 1
    /\ UNCHANGED <<data, category_totals, rf_pc, rf_totals, store, viewer>>

\* update_time_series from its first line to its return.
SeqTimeSeries(sel) ==
    /\ StoreOutput
    /\ ViewIdle
    /\ figure' = TimeSeries(data, data, sel)
    /\ UNCHANGED <<data, category_totals, refresher, vw_pc, vw_outer, vw_sel>>

NextSeq ==
    \/ \E logs \in Tables : SeqRefresh(logs)
    \/ SeqRefreshFails
    \/ update_pie_chart
    \/ update_bar_chart
    \/ update_dropdown
    \/ update_heatmap
    \/ \E sel \in Selections : SeqTimeSeries(sel)
    \/ Deliver

SpecSeq == Init /\ [][NextSeq]_vars

----------------------------------------------------------------------------
(* Properties *)

ToSet(seq) == {seq[i] : i \in 1..Len(seq)}
CategoriesOf(frame) == ToSet(CategoryColumn(frame))
TotalFor(rows, c) == SumMinutes(SelectSeq(rows, LAMBDA r : r.category = c))
GrandTotal(rows) == SumMinutes(SelectSeq(rows, LAMBDA r : TRUE))
Quiescent == \A t \in Threads : rf_pc[t] \notin InProgress

\* C1: in every state in which a view can run (the store output exists),
\* category_totals is the per-category sum of the current records of data.
C1_PublicationAtomic ==
    StoreOutput => category_totals = GroupByCategory(data)

\* C2: a running update_time_series computes its result from the snapshot
\* its first read returned: the figure it returns is the daily trend of that
\* one frame.
C2_ViewReadsOneSnapshot ==
    [][(vw_pc = "filter" /\ vw_pc' = "idle" /\ figure'.status = "ok")
        => figure' = TimeSeries(vw_outer, vw_outer, vw_sel)]_vars

\* C3: a refresh whose load_data does not return ends as a failed request,
\* and that step changes neither data nor category_totals nor the store.
C3_FailedRefreshKeepsSnapshot ==
    [][\A t \in Threads :
         (rf_pc[t] = "load" /\ rf_pc'[t] # "load" /\ rf_pc'[t] # "groupby")
         => /\ rf_pc'[t] = "raised"
            /\ data' = data
            /\ category_totals' = category_totals
            /\ store' = store]_vars

\* C3 witness: a refresh failed while an earlier snapshot with records was
\* published.
C3_Witness ==
    /\ \E t \in Threads : rf_pc[t] = "raised"
    /\ store > 0
    /\ data.rows # <<>>
    /\ category_totals = GroupByCategory(data)

\* C4: the published records hold no record with a null category, and the
\* dropdown never offers one.
C4_MalformedDropped ==
    /\ None \notin CategoriesOf(data)
    /\ figure.view = "category-filter" => None \notin ToSet(figure.value)

\* C5: at most one refresh_data is between its source read and the
\* publication of its category_totals.
C5_RefreshesDoNotInterleave ==
    Cardinality({t \in Threads : rf_pc[t] \in InProgress}) <= 1

\* C6: once every refresh has completed, category_totals is the per-category
\* sum of the published records.
C6_QuiescentSnapshotConsistent ==
    (Quiescent /\ StoreOutput) => category_totals = GroupByCategory(data)

\* C7: with every category of the snapshot selected, each category's daily
\* trend points sum to its entry of category_totals, and so do the grand
\* totals.
AllSelected == figure.sel = CategoriesOf(data)
C7_TotalsMatchDailyTrend ==
    (figure.view = "time-series" /\ AllSelected)
    => /\ figure.status = "ok"
       /\ \A c \in ToSet(CategoryOrder) :
            TotalFor(category_totals.rows, c) = TotalFor(figure.value, c)
       /\ GrandTotal(category_totals.rows) = GrandTotal(figure.value)

\* C7 witness: all categories selected, and one category has points on two
\* days.
C7_Witness ==
    /\ figure.view = "time-series"
    /\ AllSelected
    /\ \E i, j \in 1..Len(figure.value) :
         /\ figure.value[i].category = figure.value[j].category
         /\ figure.value[i].date # figure.value[j].date
         /\ figure.value[i].minutes > 0
         /\ figure.value[j].minutes > 0

\* C8: the daily trend of an empty selection equals the daily trend of the
\* selection availableCategories, and is not empty when the snapshot has
\* records.
C8_EmptyMeansAll ==
    (figure.view = "time-series" /\ figure.sel = {})
    => /\ figure = [TimeSeries(data, data, CategoriesOf(data)) EXCEPT !.sel = {}]
       /\ data.rows # <<>> => figure.value # <<>>

\* C9: update_dropdown returns exactly the categories of the records of data
\* at the time it runs, each once.
C9_DropdownIsCurrentCategories ==
    [][(figure = NoFigure /\ figure'.view = "category-filter")
        => /\ figure'.status = "ok"
           /\ ToSet(figure'.value) = CategoriesOf(data)
           /\ Len(figure'.value) = Cardinality(CategoriesOf(data))]_vars

\* C9 witness: the dropdown no longer lists "work", which the totals of an
\* earlier snapshot still hold, and lists what the current records hold.
C9_Witness ==
    /\ figure.view = "category-filter"
    /\ figure.value = <<"sleep">>
    /\ \E i \in 1..Len(category_totals.rows) : category_totals.rows[i].category = "work"
    /\ store > 0

\* C10: no heatmap bucket has the category "sleep".
C10_HeatmapExcludesSleep ==
    figure.view = "heatmap"
    => \A i \in 1..Len(figure.value) : figure.value[i].category # "sleep"

\* C10 witness: a heatmap of a snapshot that holds a sleep record and a
\* record of another category.
C10_Witness ==
    /\ figure.view = "heatmap"
    /\ figure.value # <<>>
    /\ "sleep" \in CategoriesOf(data)
    /\ triggers > 1

\* Categories of a sequence of result rows, in order.
CategoriesIn(rows) == [i \in 1..Len(rows) |-> rows[i].category]
\* The non-null categories of the records, in order of first occurrence.
DiscoveryOrder(frame) ==
    Unique(SelectSeq(CategoryColumn(frame), LAMBDA c : c # None))
AscendingByCategory(rows) ==
    \A i, j \in 1..Len(rows) :
        i < j => IndexIn(CategoryOrder, rows[i].category)
                 < IndexIn(CategoryOrder, rows[j].category)

\* C11 as stated: the totals appear in the order in which each category
\* first occurs in the records.
C11_TotalsInDiscoveryOrder ==
    figure.view = "pie-chart" => CategoriesIn(figure.value) = DiscoveryOrder(data)

\* C11 amended: the totals hold one entry per category of the records and
\* appear in ascending order of the category name.
C11_TotalsSortedByCategory ==
    figure.view = "pie-chart"
    => /\ figure.status = "ok"
       /\ figure.value = category_totals.rows
       /\ ToSet(CategoriesIn(figure.value)) = GroupCategories(data.rows)
       /\ AscendingByCategory(figure.value)

\* C11 witness: the records are [work, sleep] and the totals are
\* [sleep, work].
C11_Witness ==
    /\ figure.view = "pie-chart"
    /\ CategoryColumn(data) = <<"work", "sleep">>
    /\ CategoriesIn(figure.value) = <<"sleep", "work">>

IsPermutationOf(rows, others) ==
    /\ Len(rows) = Len(others)
    /\ ToSet(rows) = ToSet(others)

\* C12 as stated: the sorted totals are a permutation of the totals in
\* descending order of minutes, and of two equal totals the one with the
\* smaller category name comes first.
C12_SortedWithTieBreak ==
    figure.view = "bar-chart"
    => /\ IsPermutationOf(figure.value, category_totals.rows)
       /\ \A i, j \in 1..Len(figure.value) :
            i < j => \/ figure.value[i].minutes > figure.value[j].minutes
                     \/ /\ figure.value[i].minutes = figure.value[j].minutes
                        /\ IndexIn(CategoryOrder, figure.value[i].category)
                           < IndexIn(CategoryOrder, figure.value[j].category)

\* C12 amended: the sorted totals are a permutation of the totals in
\* descending order of minutes; the order of equal totals is not fixed.
C12_SortedDescending ==
    figure.view = "bar-chart"
    => /\ figure.status = "ok"
       /\ IsPermutationOf(figure.value, category_totals.rows)
       /\ \A i, j \in 1..Len(figure.value) :
            i < j => figure.value[i].minutes >= figure.value[j].minutes

\* C12 witness: two categories with equal totals, the one with the larger
\* name first.
C12_Witness ==
    /\ figure.view = "bar-chart"
    /\ Len(figure.value) = 2
    /\ figure.value[1].category = "work"
    /\ figure.value[1].minutes = figure.value[2].minutes
    /\ category_totals.rows[1].category = "sleep"

\* C13: after a refresh that read zero records, the snapshot has the loaded
\* columns, no records and no totals, and every view returns an empty
\* result without raising.
C13_EmptySourceEmptyViews ==
    (StoreOutput /\ data.rows = <<>>)
    => /\ data.columns = LoadedColumns
       /\ category_totals = [columns |-> {"category", "minutes"}, rows |-> <<>>]
       /\ figure # NoFigure => (figure.status = "ok" /\ figure.value = <<>>)

\* C13 witness: the heatmap of a snapshot read from an empty table.
C13_Witness ==
    /\ StoreOutput
    /\ data.rows = <<>>
    /\ figure.view = "heatmap"
    /\ figure.status = "ok"

\* C14: with a non-empty selection the daily trend raises nothing and holds
\* exactly the points of the categories that are selected and present; it
\* is empty when none of the selected categories is in the snapshot.
C14_SelectionFiltersPresent ==
    (figure.view = "time-series" /\ figure.sel # {})
    => /\ figure.status = "ok"
       /\ figure.value = SelectSeq(GroupByDay(data),
                                   LAMBDA p : p.category \in figure.sel)
       /\ \A i \in 1..Len(figure.value) :
            figure.value[i].category \in figure.sel \cap CategoriesOf(data)
       /\ figure.sel \cap CategoriesOf(data) = {} => figure.value = <<>>

\* C14 witness: after a second refresh, a selection none of whose
\* categories is in the records gives an empty trend.
C14_Witness ==
    /\ figure.view = "time-series"
    /\ figure.status = "ok"
    /\ figure.sel # {}
    /\ figure.sel \cap CategoriesOf(data) = {}
    /\ data.rows # <<>>
    /\ figure.value = <<>>
    /\ store > 1

\* C15: a step of a view callback (or the delivery of its response) leaves
\* data and category_totals as they are, columns and order included; the
\* only steps that change either are the assignments of refresh_data.
ViewStep == figure' # figure \/ vw_pc' # vw_pc
C15_ViewsDoNotWriteSnapshot ==
    [][/\ ViewStep => (data' = data /\ category_totals' = category_totals)
       /\ (data' # data \/ category_totals' # category_totals)
          => \E t \in Threads : rf_pc[t] \in {"load", "assign"} /\ rf_pc'[t] # rf_pc[t]]_vars

\* C15 witness: a heatmap was computed (sleep rows filtered out of its
\* copy) and data still has its loaded columns and its sleep record.
C15_Witness ==
    /\ figure.view = "heatmap"
    /\ figure.value # <<>>
    /\ data.columns = LoadedColumns
    /\ CategoryColumn(data) = <<"sleep", "work">>
    /\ category_totals = GroupByCategory(data)

\* C16: every record whose category is not "sleep" contributes its minutes
\* to exactly one heatmap bucket: the bucket totals sum to the minutes of
\* the non-sleep records, and a single non-sleep record gives one bucket
\* with its local weekday, local hour, category and minutes.
NonSleepRows(frame) == SelectSeq(frame.rows, LAMBDA r : r.category # "sleep")
C16_HeatmapKeepsEveryRecord ==
    figure.view = "heatmap"
    => /\ GrandTotal(figure.value) = SumMinutes(NonSleepRows(data))
       /\ Len(NonSleepRows(data)) = 1
          => figure.value = <<[day_of_week |-> day_name(NonSleepRows(data)[1].date),
                               hour |-> hour(NonSleepRows(data)[1].date),
                               category |-> NonSleepRows(data)[1].category,
                               minutes |-> NonSleepRows(data)[1].minutes]>>

\* C17: with a record whose end precedes its start in the snapshot, that
\* record's minutes are the negative (end - init) / 60000, no view raises,
\* and the category totals, the daily trend and the heatmap each sum the
\* minutes of the records as they are.
HasNegativeSpan == \E i \in 1..Len(data.rows) :
                      data.rows[i].end_time_ms < data.rows[i].init_time_ms
C17_NegativeDurationsSummed ==
    (StoreOutput /\ HasNegativeSpan)
    => /\ \A i \in 1..Len(data.rows) :
            /\ data.rows[i].minutes * MsPerMinute
               = data.rows[i].end_time_ms - data.rows[i].init_time_ms
            /\ data.rows[i].end_time_ms < data.rows[i].init_time_ms
               => data.rows[i].minutes < 0
       /\ \A c \in ToSet(CategoryOrder) :
            /\ TotalFor(category_totals.rows, c) = TotalFor(data.rows, c)
            /\ (figure.view = "time-series" /\ figure.sel = {})
               => TotalFor(figure.value, c) = TotalFor(data.rows, c)
            /\ (figure.view = "heatmap" /\ c # "sleep")
               => TotalFor(figure.value, c) = TotalFor(data.rows, c)
       /\ figure # NoFigure => figure.status = "ok"

\* C17 witness: a heatmap bucket and a category total that are negative.
C17_Witness ==
    /\ HasNegativeSpan
    /\ figure.view = "heatmap"
    /\ \E i \in 1..Len(figure.value) : figure.value[i].minutes < 0
    /\ \E i \in 1..Len(category_totals.rows) : category_totals.rows[i].minutes < 0

\* C18: whenever a view callback is running or has just returned, some
\* refresh_data has returned its store output, data and category_totals
\* are loaded frames (not the column-less frames of lines 21-22), and no
\* view raised for a missing column.
StoreViews == {"pie-chart", "bar-chart", "category-filter", "heatmap"}
====
